---- MODULE Spec2Model ----
(***************************************************************************)
(* A model of cvrp/ui/main.py: the Places and Vehicles list tabs editing   *)
(* the Network, the "Solve Problem" trigger (MainWidget.on_click_solve)    *)
(* and the background job (ModelSolveRunnable.run) with its progress       *)
(* dialog.                                                                 *)
(*                                                                         *)
(* Network, Place and Vehicle live in cvrp.data, the editor forms in       *)
(* cvrp.ui.places / cvrp.ui.vehicles and the pipeline stages in            *)
(* cvrp.model / cvrp.solver / cvrp.report; none of them is part of         *)
(* main.py.  Network's operations are modelled from the specification      *)
(* (section 3 and 4.1); the stages are modelled by their outcome only.     *)
(***************************************************************************)
EXTENDS Integers, Sequences, FiniteSets, TLC

(***************************************************************************)
(* Bounds of the model.                                                    *)
(***************************************************************************)
\* Place objects ever created by the Add button of the Places tab.
MaxPlaces == 3
\* Vehicle objects ever created by the Add button of the Vehicles tab.
MaxVehicles == 3
\* Editor forms open at the same time, per tab.
MaxForms == 1
\* Activations of the solve trigger (each submits at most one job).
MaxClicks == 1
\* Distinct values of the one-second timestamp in a report's file name.
MaxStamps == 1

VARIABLES
    depot,          \* Network.depot
    clients,        \* Network.clients, in insertion order
    vehicles,       \* Network.vehicles, in insertion order
    placesMade,     \* Place objects constructed so far (object identities)
    vehiclesMade,   \* Vehicle objects constructed so far
    removeArg,      \* the argument of the latest remove_client call
    ptab,           \* PlacesTabWidget: its list and its action buttons
    vtab,           \* VehiclesTabWidget: its list and its action buttons
    solveEnabled,   \* MainWidget.solve is enabled
    uiBox,          \* the QMessageBox of on_click_solve is open (exec_)
    clicks,         \* activations of on_click_solve so far
    errorSurface,   \* every QMessageBox shown: who showed it and its text
    launch,         \* where launch_ui is: "get_solvers", "msg", "returned", "exec"
    jobs,           \* the ModelSolveRunnables started, each with its dialog
    uiQueue,        \* queued invocations posted to the interactive thread
    files           \* report files present in the home directory

netVars == <<depot, clients, vehicles, placesMade, vehiclesMade, removeArg>>
tabVars == <<ptab, vtab>>
solveVars == <<solveEnabled, uiBox, clicks, errorSurface, launch>>
jobVars == <<jobs, uiQueue, files>>
vars == <<depot, clients, vehicles, placesMade, vehiclesMade, removeArg,
          ptab, vtab, solveEnabled, uiBox, clicks, errorSurface, launch,
          jobs, uiQueue, files>>

(***************************************************************************)
(* Places and vehicles.  Equality of Place and Vehicle is object identity; *)
(* the id field is that identity, so two records are equal exactly when    *)
(* they are the same object.                                               *)
(***************************************************************************)
DepotPlace == [id |-> 0, name |-> <<"Depot", 0>>]

\* Place(f"New Client ({new_index})", 0.0, 0.0)
NewClientPlace(ident, new_index) ==
    [id |-> ident, name |-> <<"New Client", new_index>>]

\* Vehicle(f"New Vehicle ({new_index})", 1.0)
NewVehicle(ident, new_index) ==
    [id |-> ident, name |-> <<"New Vehicle", new_index>>]

(***************************************************************************)
(* Network (cvrp.data), from the specification.                            *)
(***************************************************************************)
RECURSIVE RemoveFirst(_, _)
\* s without its first element equal to x; s itself when x is absent.
RemoveFirst(s, x) ==
    IF s = <<>> THEN <<>>
    ELSE IF Head(s) = x THEN Tail(s)
    ELSE <<Head(s)>> \o RemoveFirst(Tail(s), x)

InSeq(s, x) == \E i \in 1..Len(s) : s[i] = x

\* Network.add_client / Network.add_vehicle: append, always succeeds.
add_client(cs, place) == Append(cs, place)
add_vehicle(vs, vehicle) == Append(vs, vehicle)

\* Network.remove_client / Network.remove_vehicle: the first identity-equal
\* match is removed.
remove_client(cs, place) == RemoveFirst(cs, place)
remove_vehicle(vs, vehicle) == RemoveFirst(vs, vehicle)

\* Network.all_places: the depot followed by the clients.
all_places == <<depot>> \o clients

\* Network.check_solvability: "ok", or the message of the CVRPException.
check_solvability ==
    IF vehicles = <<>> THEN "No vehicles defined"
    ELSE IF clients = <<>> THEN "No clients defined"
    ELSE "ok"

(***************************************************************************)
(* The list tabs.  A tab is its QListWidget (items, the current item as an *)
(* index, 0 for none), the enabled state of its Remove and Edit buttons    *)
(* and the number of editor forms it has open.                             *)
(***************************************************************************)
NoItem == [id |-> -1, name |-> <<"", 0>>]

\* QListWidget.currentItem()
currentItem(tab) == IF tab.current = 0 THEN NoItem ELSE tab.items[tab.current]

\* ListTabWidget.is_selected_item_valid
is_selected_item_valid(item) == item # NoItem

\* ListTabWidget.update_action_buttons
List_update_action_buttons(tab, item) ==
    [tab EXCEPT !.remove = is_selected_item_valid(item),
                !.edit = is_selected_item_valid(item)]

\* PlacesTabWidget.update_action_buttons
Places_update_action_buttons(tab, item) ==
    LET t == List_update_action_buttons(tab, item)
        is_depot_selected == item = depot
    IN  IF is_selected_item_valid(item)
        THEN [t EXCEPT !.remove = ~is_depot_selected]
        ELSE t

\* PlaceList.update_places: clear(), then one item per place of all_places.
update_places(tab, places) == [tab EXCEPT !.items = places, !.current = 0]

\* VehicleList.update_vehicles
update_vehicles(tab, vs) == [tab EXCEPT !.items = vs, !.current = 0]

\* PlacesTabWidget.__on_editor_close
Places_on_editor_close_effect(tab, places) ==
    Places_update_action_buttons(update_places(tab, places), NoItem)

\* VehiclesTabWidget.__on_editor_close
Vehicles_on_editor_close_effect(tab, vs) ==
    List_update_action_buttons(update_vehicles(tab, vs), NoItem)

\* The progress dialogs are window-modal on the main window and the message
\* box of on_click_solve is application-modal: the main window takes input
\* only while none of them is up.
DialogShowing == \E j \in 1..Len(jobs) : jobs[j].bar.visible
MainWindowActive == launch = "exec" /\ ~uiBox /\ ~DialogShowing

(***************************************************************************)
(* The Places tab.                                                         *)
(***************************************************************************)
\* A mouse click on the i-th item: the list makes it the current item and
\* emits itemClicked, which is connected to update_action_buttons.
Places_itemClicked(i) ==
    /\ MainWindowActive
    /\ i \in 1..Len(ptab.items)
    /\ ptab' = Places_update_action_buttons([ptab EXCEPT !.current = i],
                                            ptab.items[i])
    /\ UNCHANGED <<netVars, vtab, solveVars, jobVars>>

\* The current item changed from the keyboard (arrow keys): the list emits
\* currentItemChanged, to which no slot is connected.
Places_currentItemChanged(i) ==
    /\ MainWindowActive
    /\ i \in 1..Len(ptab.items)
    /\ i # ptab.current
    /\ ptab' = [ptab EXCEPT !.current = i]
    /\ UNCHANGED <<netVars, vtab, solveVars, jobVars>>

\* Places_new_place, had on_item_add added the depot itself as a client.
Places_new_place_depot == depot

\* The Place that on_item_add constructs.
Places_new_place ==
    LET new_index == Len(clients) + 1
    IN  NewClientPlace(placesMade + 1, new_index)

\* Add clicked: ListTabWidget.__add_item, PlacesTabWidget.on_item_add.
Places_on_item_add ==
    /\ MainWindowActive
    /\ placesMade < MaxPlaces
    /\ ptab.forms < MaxForms
    /\ clients' = add_client(clients, Places_new_place)
    /\ placesMade' = placesMade + 1
    /\ ptab' = [ptab EXCEPT !.forms = @ + 1]
    /\ UNCHANGED <<depot, vehicles, vehiclesMade, removeArg, vtab,
                   solveVars, jobVars>>

\* Edit clicked: ListTabWidget.__edit_item, PlacesTabWidget.on_item_edit.
Places_on_item_edit ==
    /\ MainWindowActive
    /\ ptab.edit
    /\ currentItem(ptab) # NoItem
    /\ ptab.forms < MaxForms
    /\ ptab' = [ptab EXCEPT !.forms = @ + 1]
    /\ UNCHANGED <<netVars, vtab, solveVars, jobVars>>

\* A double click on the i-th item: itemClicked, then itemDoubleClicked,
\* which is connected to __edit_item.
Places_itemDoubleClicked(i) ==
    /\ MainWindowActive
    /\ i \in 1..Len(ptab.items)
    /\ ptab.forms < MaxForms
    /\ ptab' = [Places_update_action_buttons([ptab EXCEPT !.current = i],
                                             ptab.items[i])
                  EXCEPT !.forms = @ + 1]
    /\ UNCHANGED <<netVars, vtab, solveVars, jobVars>>

\* Remove clicked: ListTabWidget.__remove_item, PlacesTabWidget.on_item_remove.
\* Network.remove_client of a place that is no client either does nothing or
\* raises (the specification leaves the choice open); when it raises,
\* on_item_remove ends before __on_editor_close.
Places_on_item_remove ==
    /\ MainWindowActive
    /\ ptab.remove
    /\ currentItem(ptab) # NoItem
    /\ removeArg' = currentItem(ptab)
    /\ clients' = remove_client(clients, currentItem(ptab))
    /\ \/ ptab' = Places_on_editor_close_effect(ptab, <<depot>> \o clients')
       \/ /\ ~InSeq(clients, currentItem(ptab))
          /\ ptab' = ptab
    /\ UNCHANGED <<depot, vehicles, placesMade, vehiclesMade, vtab,
                   solveVars, jobVars>>

\* An editor form of the tab is closed: the form calls the callback given
\* to set_on_close, PlacesTabWidget.__on_editor_close.
Places_on_editor_close ==
    /\ ~uiBox
    /\ ptab.forms > 0
    /\ ptab' = Places_on_editor_close_effect([ptab EXCEPT !.forms = @ - 1],
                                             all_places)
    /\ UNCHANGED <<netVars, vtab, solveVars, jobVars>>

(***************************************************************************)
(* The Vehicles tab.                                                       *)
(***************************************************************************)
Vehicles_itemClicked(i) ==
    /\ MainWindowActive
    /\ i \in 1..Len(vtab.items)
    /\ vtab' = List_update_action_buttons([vtab EXCEPT !.current = i],
                                          vtab.items[i])
    /\ UNCHANGED <<netVars, ptab, solveVars, jobVars>>

Vehicles_currentItemChanged(i) ==
    /\ MainWindowActive
    /\ i \in 1..Len(vtab.items)
    /\ i # vtab.current
    /\ vtab' = [vtab EXCEPT !.current = i]
    /\ UNCHANGED <<netVars, ptab, solveVars, jobVars>>

\* The Vehicle that on_item_add constructs.
Vehicles_new_vehicle ==
    LET new_index == Len(vehicles) + 1
    IN  NewVehicle(vehiclesMade + 1, new_index)

\* Add clicked: ListTabWidget.__add_item, VehiclesTabWidget.on_item_add.
Vehicles_on_item_add ==
    /\ MainWindowActive
    /\ vehiclesMade < MaxVehicles
    /\ vtab.forms < MaxForms
    /\ vehicles' = add_vehicle(vehicles, Vehicles_new_vehicle)
    /\ vehiclesMade' = vehiclesMade + 1
    /\ vtab' = [vtab EXCEPT !.forms = @ + 1]
    /\ UNCHANGED <<depot, clients, placesMade, removeArg, ptab,
                   solveVars, jobVars>>

\* Edit clicked: ListTabWidget.__edit_item, VehiclesTabWidget.on_item_edit.
Vehicles_on_item_edit ==
    /\ MainWindowActive
    /\ vtab.edit
    /\ currentItem(vtab) # NoItem
    /\ vtab.forms < MaxForms
    /\ vtab' = [vtab EXCEPT !.forms = @ + 1]
    /\ UNCHANGED <<netVars, ptab, solveVars, jobVars>>

Vehicles_itemDoubleClicked(i) ==
    /\ MainWindowActive
    /\ i \in 1..Len(vtab.items)
    /\ vtab.forms < MaxForms
    /\ vtab' = [List_update_action_buttons([vtab EXCEPT !.current = i],
                                           vtab.items[i])
                  EXCEPT !.forms = @ + 1]
    /\ UNCHANGED <<netVars, ptab, solveVars, jobVars>>

\* Remove clicked: ListTabWidget.__remove_item,
\* VehiclesTabWidget.on_item_remove.
Vehicles_on_item_remove ==
    /\ MainWindowActive
    /\ vtab.remove
    /\ currentItem(vtab) # NoItem
    /\ vehicles' = remove_vehicle(vehicles, currentItem(vtab))
    /\ vtab' = Vehicles_on_editor_close_effect(vtab, vehicles')
    /\ UNCHANGED <<depot, clients, placesMade, vehiclesMade, removeArg, ptab,
                   solveVars, jobVars>>

\* An editor form of the tab is closed: VehiclesTabWidget.__on_editor_close.
Vehicles_on_editor_close ==
    /\ ~uiBox
    /\ vtab.forms > 0
    /\ vtab' = Vehicles_on_editor_close_effect([vtab EXCEPT !.forms = @ - 1],
                                               vehicles)
    /\ UNCHANGED <<netVars, ptab, solveVars, jobVars>>

(***************************************************************************)
(* The solve job.  A job is the ModelSolveRunnable together with the       *)
(* QProgressDialog it was given.  trace lists what run() has done so far:  *)
(* "report" (set_bar_status), "invoke" / "return" / "raise" of stage arg   *)
(* (0 build, 1 solve, 2 render, 3 the file write, 4 the viewer),           *)
(* "create" / "written" of the report file stamped arg, "viewer",          *)
(* "error" (the message box) and "close" (bar.close()).                    *)
(***************************************************************************)
Event(ev, arg, text) == [ev |-> ev, arg |-> arg, text |-> text]

\* The label run() reports before stage k (0 build, 1 solve, 2 render).
StageLabel(k) ==
    CASE k = 0 -> "Building model..."
      [] k = 1 -> "Searching for a solution..."
      [] k = 2 -> "Generating report..."

\* StageValue, had run() reported self.progress (never advanced) each time.
StageValue_stale(job, k) == job.progress

\* The value run() reports before stage k: self.progress, then 1, then 2.
StageValue(job, k) == IF k = 0 THEN job.progress ELSE k

\* The message of the CVRPException a failing stage k raises.
StageError(k) ==
    CASE k = 0 -> "model cannot be built"
      [] k = 1 -> "no solution found"
      [] k = 2 -> "report cannot be generated"

\* "report-" + datetime.now().strftime(...) + ".html"
FileName(stamp) == <<"report-", stamp, ".html">>

\* QProgressDialog("", "Cancel", 0, 3, self) after show().
NewDialog ==
    [visible |-> TRUE, value |-> -1, label |-> "", closed |-> FALSE,
     canceled |-> FALSE, late |-> 0]

\* ModelSolveRunnable(network, dialog), handed to the pool.
NewRunnable ==
    [pc |-> "ready", stage |-> 0, progress |-> 0, kind |-> "none",
     exc |-> "", result |-> "", escaped |-> FALSE, trace |-> <<>>,
     bar |-> NewDialog]

Log(job, e) == [job EXCEPT !.trace = Append(@, e)]

\* Fault, had bar.close() been the last statement of the try block instead
\* of a finally clause: the error leaves run() at once.
Fault_no_finally(job) ==
    [job EXCEPT !.pc = "done", !.kind = "fault", !.result = "FAULTED",
                !.escaped = TRUE]

\* A non-domain error: no except clause matches, the finally clause runs and
\* the error then leaves run().
Fault(job) == [job EXCEPT !.pc = "finally", !.kind = "fault"]

\* A CVRPException with the given message: the except clause runs.
Domain(job, msg) == [job EXCEPT !.pc = "except", !.kind = "domain", !.exc = msg]

\* ModelSolveRunnable.set_bar_status: two queued invocations on the dialog.
set_bar_status(j, value, label) ==
    <<[job |-> j, method |-> "setValue", value |-> value, text |-> ""],
      [job |-> j, method |-> "setLabelText", value |-> 0, text |-> label]>>

\* run_stage_begin, had run() called the stage before reporting it.
run_stage_begin_late_report(j) ==
    /\ j \in 1..Len(jobs)
    /\ jobs[j].pc = "ready"
    /\ LET job == jobs[j]
           k == job.stage
           value == StageValue(job, k)
       IN  /\ uiQueue' = uiQueue \o set_bar_status(j, value, StageLabel(k))
           /\ jobs' = [jobs EXCEPT ![j] =
                 [Log(Log(job, Event("invoke", k, "")),
                      Event("report", value, StageLabel(k)))
                    EXCEPT !.pc = "running"]]
    /\ UNCHANGED <<netVars, tabVars, solveVars, files>>

\* run(): the progress report of the next stage, then the call of the stage.
run_stage_begin(j) ==
    /\ j \in 1..Len(jobs)
    /\ jobs[j].pc = "ready"
    /\ LET job == jobs[j]
           k == job.stage
           value == StageValue(job, k)
       IN  /\ uiQueue' = uiQueue \o set_bar_status(j, value, StageLabel(k))
           /\ jobs' = [jobs EXCEPT ![j] =
                 [Log(Log(job, Event("report", value, StageLabel(k))),
                      Event("invoke", k, ""))
                    EXCEPT !.pc = "running"]]
    /\ UNCHANGED <<netVars, tabVars, solveVars, files>>

\* Where run() goes when stage k has returned.
AfterStage(job, k) ==
    IF k < 2 THEN [job EXCEPT !.pc = "ready", !.stage = k + 1]
    ELSE [job EXCEPT !.pc = "write"]

\* run(): the stage in progress returns, raises a CVRPException or raises
\* another error.
run_stage_end(j, outcome) ==
    /\ j \in 1..Len(jobs)
    /\ jobs[j].pc = "running"
    /\ LET job == jobs[j]
           k == job.stage
       IN  jobs' = [jobs EXCEPT ![j] =
              CASE outcome = "ok" -> AfterStage(Log(job, Event("return", k, "")), k)
                [] outcome = "domain" ->
                     Domain(Log(job, Event("raise", k, StageError(k))), StageError(k))
                [] outcome = "fault" -> Fault(Log(job, Event("raise", k, "")))]
    /\ UNCHANGED <<netVars, tabVars, solveVars, uiQueue, files>>

\* run(): with open(abs_file_path, "w") as file: file.write(report).
\* open() may fail (no file), write() may fail (the file exists, partial).
run_write(j, stamp, outcome) ==
    /\ j \in 1..Len(jobs)
    /\ jobs[j].pc = "write"
    /\ LET job == jobs[j]
           created == Log(job, Event("create", stamp, ""))
       IN  CASE outcome = "ok" ->
                  /\ files' = files \cup {FileName(stamp)}
                  /\ jobs' = [jobs EXCEPT ![j] =
                        [Log(created, Event("written", stamp, ""))
                           EXCEPT !.pc = "viewer"]]
             [] outcome = "open_error" ->
                  /\ files' = files
                  /\ jobs' = [jobs EXCEPT ![j] =
                        Fault(Log(job, Event("raise", 3, "")))]
             [] outcome = "write_error" ->
                  /\ files' = files \cup {FileName(stamp)}
                  /\ jobs' = [jobs EXCEPT ![j] =
                        Fault(Log(created, Event("raise", 3, "")))]
    /\ UNCHANGED <<netVars, tabVars, solveVars, uiQueue>>

\* run(): webbrowser.open(abs_file_path) returns True, returns False or
\* raises; after it returns, QThread.msleep(500) delays the finally clause.
run_viewer(j, outcome) ==
    /\ j \in 1..Len(jobs)
    /\ jobs[j].pc = "viewer"
    /\ LET job == jobs[j]
       IN  jobs' = [jobs EXCEPT ![j] =
              CASE outcome = "opened" ->
                     [Log(job, Event("viewer", 1, "")) EXCEPT !.pc = "finally"]
                [] outcome = "not_opened" ->
                     [Log(job, Event("viewer", 0, "")) EXCEPT !.pc = "finally"]
                [] outcome = "fault" -> Fault(Log(job, Event("raise", 4, "")))]
    /\ UNCHANGED <<netVars, tabVars, solveVars, uiQueue, files>>

\* run_except, had the handler shown the window title instead of exc.message.
run_except_title(j) ==
    /\ j \in 1..Len(jobs)
    /\ jobs[j].pc = "except"
    /\ LET job == jobs[j]
       IN  /\ errorSurface' = Append(errorSurface, [by |-> j, text |-> "Error"])
           /\ jobs' = [jobs EXCEPT ![j] =
                 [Log(job, Event("error", 0, "Error")) EXCEPT !.pc = "errbox"]]
    /\ UNCHANGED <<netVars, tabVars, solveEnabled, uiBox, clicks, launch,
                   uiQueue, files>>

\* run(): except CVRPException: the message box is built and exec_() entered.
run_except(j) ==
    /\ j \in 1..Len(jobs)
    /\ jobs[j].pc = "except"
    /\ LET job == jobs[j]
       IN  /\ errorSurface' = Append(errorSurface, [by |-> j, text |-> job.exc])
           /\ jobs' = [jobs EXCEPT ![j] =
                 [Log(job, Event("error", 0, job.exc)) EXCEPT !.pc = "errbox"]]
    /\ UNCHANGED <<netVars, tabVars, solveEnabled, uiBox, clicks, launch,
                   uiQueue, files>>

\* run(): the message box is dismissed, exec_() returns.
run_except_end(j) ==
    /\ j \in 1..Len(jobs)
    /\ jobs[j].pc = "errbox"
    /\ jobs' = [jobs EXCEPT ![j].pc = "finally"]
    /\ UNCHANGED <<netVars, tabVars, solveVars, uiQueue, files>>

\* The state run() ends in.
Terminal(kind) ==
    CASE kind = "none" -> "DONE"
      [] kind = "domain" -> "FAILED"
      [] kind = "fault" -> "FAULTED"

\* run(): finally: self.bar.close(), called on the worker thread, not queued.
\* A fault is re-raised after it and leaves run().
run_finally(j) ==
    /\ j \in 1..Len(jobs)
    /\ jobs[j].pc = "finally"
    /\ LET job == jobs[j]
       IN  jobs' = [jobs EXCEPT ![j] =
              [Log(job, Event("close", 0, ""))
                 EXCEPT !.pc = "done",
                        !.result = Terminal(job.kind),
                        !.escaped = (job.kind = "fault"),
                        !.bar.visible = FALSE,
                        !.bar.closed = TRUE]]
    /\ UNCHANGED <<netVars, tabVars, solveVars, uiQueue, files>>

(***************************************************************************)
(* The interactive thread.                                                 *)
(***************************************************************************)
\* on_click_solve_upto, had the dialog been shown and the runnable started
\* before check_solvability() was called.
on_click_solve_check_late(limit) ==
    /\ MainWindowActive
    /\ solveEnabled
    /\ clicks < limit
    /\ clicks' = clicks + 1
    /\ jobs' = Append(jobs, NewRunnable)
    /\ IF check_solvability = "ok"
       THEN /\ solveEnabled' = TRUE
            /\ UNCHANGED <<uiBox, errorSurface>>
       ELSE /\ errorSurface' = Append(errorSurface,
                                      [by |-> 0, text |-> check_solvability])
            /\ uiBox' = TRUE
            /\ solveEnabled' = FALSE
    /\ UNCHANGED <<netVars, tabVars, launch, uiQueue, files>>

\* on_click_solve_upto, had check_solvability() not been called: the dialog
\* is shown and the runnable started on whatever Network there is.
on_click_solve_unchecked(limit) ==
    /\ MainWindowActive
    /\ solveEnabled
    /\ clicks < limit
    /\ clicks' = clicks + 1
    /\ jobs' = Append(jobs, NewRunnable)
    /\ solveEnabled' = TRUE
    /\ UNCHANGED <<netVars, tabVars, uiBox, errorSurface, launch, uiQueue, files>>

\* MainWidget.on_click_solve.  With a solvable network the handler runs to
\* its end: the button is disabled, the dialog shown, the runnable started
\* and the button enabled again.  Otherwise it stops in msg.exec_() with the
\* button disabled.
on_click_solve_upto(limit) ==
    /\ MainWindowActive
    /\ solveEnabled
    /\ clicks < limit
    /\ clicks' = clicks + 1
    /\ IF check_solvability = "ok"
       THEN /\ jobs' = Append(jobs, NewRunnable)
            /\ solveEnabled' = TRUE
            /\ UNCHANGED <<uiBox, errorSurface>>
       ELSE /\ errorSurface' = Append(errorSurface,
                                      [by |-> 0, text |-> check_solvability])
            /\ uiBox' = TRUE
            /\ solveEnabled' = FALSE
            /\ UNCHANGED jobs
    /\ UNCHANGED <<netVars, tabVars, launch, uiQueue, files>>

on_click_solve == on_click_solve_upto(MaxClicks)

\* on_click_solve_end, had the handler's last statement (setDisabled(False))
\* been left out.
on_click_solve_end_disabled ==
    /\ uiBox
    /\ uiBox' = FALSE
    /\ UNCHANGED <<netVars, tabVars, solveEnabled, clicks, errorSurface, launch,
                   jobVars>>

\* on_click_solve: the message box is dismissed, exec_() returns and the
\* handler's last statement enables the button.
on_click_solve_end ==
    /\ uiBox
    /\ uiBox' = FALSE
    /\ solveEnabled' = TRUE
    /\ UNCHANGED <<netVars, tabVars, clicks, errorSurface, launch, jobVars>>

\* The dialog's setValue / setLabelText as a queued invocation is delivered.
\* A setValue above the minimum on a hidden dialog shows the dialog again
\* when Qt estimates the operation to outlast minimumDuration; the estimate
\* depends on the time elapsed, so either may happen.
ApplyQueued(bar, call, reshow) ==
    LET b == [bar EXCEPT !.late = IF bar.closed THEN 1 ELSE @]
    IN  IF call.method = "setValue"
        THEN [b EXCEPT !.value = call.value,
                       !.visible = @ \/ (reshow /\ call.value > 0)]
        ELSE [b EXCEPT !.label = call.text]

\* The event loop of the interactive thread delivers the oldest queued
\* invocation.
deliver_queued(reshow) ==
    /\ uiQueue # <<>>
    /\ LET call == Head(uiQueue)
       IN  /\ reshow => (call.method = "setValue" /\ call.value > 0
                          /\ ~jobs[call.job].bar.visible)
           /\ jobs' = [jobs EXCEPT ![call.job].bar = ApplyQueued(@, call, reshow)]
    /\ uiQueue' = Tail(uiQueue)
    /\ UNCHANGED <<netVars, tabVars, solveVars, files>>

\* on_cancel, had the dialog's canceled signal been connected to the job so
\* that run() gives up what it is doing and goes to its finally clause.
on_cancel_abort(j) ==
    /\ ~uiBox
    /\ j \in 1..Len(jobs)
    /\ jobs[j].bar.visible
    /\ jobs' = [jobs EXCEPT ![j].bar.visible = FALSE,
                            ![j].bar.canceled = TRUE,
                            ![j].pc = IF @ = "done" THEN @ ELSE "finally"]
    /\ UNCHANGED <<netVars, tabVars, solveVars, uiQueue, files>>

\* The dialog's Cancel button: QProgressDialog.cancel() hides the dialog and
\* sets wasCanceled; nothing in main.py is connected to it.
on_cancel(j) ==
    /\ ~uiBox
    /\ j \in 1..Len(jobs)
    /\ jobs[j].bar.visible
    /\ jobs' = [jobs EXCEPT ![j].bar.visible = FALSE,
                            ![j].bar.canceled = TRUE]
    /\ UNCHANGED <<netVars, tabVars, solveVars, uiQueue, files>>

(***************************************************************************)
(* The state after launch_ui has built the main window on a new Network.   *)
(***************************************************************************)
NewTab(items) ==
    [items |-> items, current |-> 0, remove |-> FALSE, edit |-> FALSE,
     forms |-> 0]

Init ==
    /\ depot = DepotPlace
    /\ clients = <<>>
    /\ vehicles = <<>>
    /\ placesMade = 0
    /\ vehiclesMade = 0
    /\ removeArg = NoItem
    /\ ptab = NewTab(<<DepotPlace>>)
    /\ vtab = NewTab(<<>>)
    /\ solveEnabled = TRUE
    /\ uiBox = FALSE
    /\ clicks = 0
    /\ errorSurface = <<>>
    /\ launch = "exec"
    /\ jobs = <<>>
    /\ uiQueue = <<>>
    /\ files = {}

PlacesNext ==
    \/ \E i \in 1..(MaxPlaces + 1) : Places_itemClicked(i)
    \/ \E i \in 1..(MaxPlaces + 1) : Places_currentItemChanged(i)
    \/ \E i \in 1..(MaxPlaces + 1) : Places_itemDoubleClicked(i)
    \/ Places_on_item_add
    \/ Places_on_item_edit
    \/ Places_on_item_remove
    \/ Places_on_editor_close

VehiclesNext ==
    \/ \E i \in 1..MaxVehicles : Vehicles_itemClicked(i)
    \/ \E i \in 1..MaxVehicles : Vehicles_currentItemChanged(i)
    \/ \E i \in 1..MaxVehicles : Vehicles_itemDoubleClicked(i)
    \/ Vehicles_on_item_add
    \/ Vehicles_on_item_edit
    \/ Vehicles_on_item_remove
    \/ Vehicles_on_editor_close

\* The Places tab alone, and the two tabs together: the Network is edited
\* and no job is started.
SpecPlaces == Init /\ [][PlacesNext]_vars
EditNext == PlacesNext \/ VehiclesNext
SpecEdit == Init /\ [][EditNext]_vars

StageOutcomes == {"ok", "domain", "fault"}
WriteOutcomes == {"ok", "open_error", "write_error"}
ViewerOutcomes == {"opened", "not_opened", "fault"}

JobNext ==
    \E j \in 1..(MaxClicks + 1) :
        \/ run_stage_begin(j)
        \/ \E outcome \in StageOutcomes : run_stage_end(j, outcome)
        \/ \E stamp \in 1..MaxStamps, outcome \in WriteOutcomes :
               run_write(j, stamp, outcome)
        \/ \E outcome \in ViewerOutcomes : run_viewer(j, outcome)
        \/ run_except(j)
        \/ run_except_end(j)
        \/ run_finally(j)

\* What the interactive thread does about jobs, the solve trigger aside.
DialogNext ==
    \/ on_click_solve_end
    \/ \E reshow \in BOOLEAN : deliver_queued(reshow)
    \/ \E j \in 1..(MaxClicks + 1) : on_cancel(j)

SolveNext == on_click_solve \/ DialogNext

\* The whole program: the tabs, the solve trigger and the jobs together.
\* SpecPlaces, SpecEdit, SpecSolve and SpecOverlap are parts of it, small
\* enough to be explored in full.
Next == EditNext \/ SolveNext \/ JobNext

Spec == Init /\ [][Next]_vars

(***************************************************************************)
(* The solve trigger and the jobs alone, on each Network the tabs can have *)
(* built from at most one client and one vehicle (the forms closed, the    *)
(* lists refreshed).                                                       *)
(***************************************************************************)
InitSolve ==
    /\ depot = DepotPlace
    /\ placesMade \in {0, 1}
    /\ vehiclesMade \in {0, 1}
    /\ clients = IF placesMade = 0 THEN <<>> ELSE <<NewClientPlace(1, 1)>>
    /\ vehicles = IF vehiclesMade = 0 THEN <<>> ELSE <<NewVehicle(1, 1)>>
    /\ removeArg = NoItem
    /\ ptab = NewTab(<<DepotPlace>> \o clients)
    /\ vtab = NewTab(vehicles)
    /\ solveEnabled = TRUE
    /\ uiBox = FALSE
    /\ clicks = 0
    /\ errorSurface = <<>>
    /\ launch = "exec"
    /\ jobs = <<>>
    /\ uiQueue = <<>>
    /\ files = {}

SpecSolve == InitSolve /\ [][SolveNext \/ JobNext]_vars

\* The same with one more activation of the solve trigger, so that a job can
\* be submitted while another one is running.
OverlapNext == on_click_solve_upto(MaxClicks + 1) \/ DialogNext \/ JobNext
SpecOverlap == InitSolve /\ [][OverlapNext]_vars

(***************************************************************************)
(* What a job has done, read from its trace.                               *)
(***************************************************************************)
Positions(job, ev) == {i \in 1..Len(job.trace) : job.trace[i].ev = ev}
Count(job, ev) == Cardinality(Positions(job, ev))
IsReport(e) == e.ev = "report"
\* The progress calls of the job, in order, as <<value, label>>.
Reports(job) ==
    LET r == SelectSeq(job.trace, IsReport)
    IN  [i \in 1..Len(r) |-> <<r[i].arg, r[i].text>>]
\* The error-surface calls made by job j (0: by on_click_solve), in order.
ErrorTexts(j) ==
    LET Mine(e) == e.by = j
        r == SelectSeq(errorSurface, Mine)
    IN  [i \in 1..Len(r) |-> r[i].text]
Has(job, ev, arg) ==
    \E i \in 1..Len(job.trace) : job.trace[i].ev = ev /\ job.trace[i].arg = arg
Ended(job) == job.pc = "done"
AllReports ==
    <<<<0, "Building model...">>, <<1, "Searching for a solution...">>,
      <<2, "Generating report...">>>>
JobIds == 1..Len(jobs)

(***************************************************************************)
(* C1.  Whichever terminal state a job reaches (DONE, FAILED or FAULTED),  *)
(* the cleanup action, bar.close(), has fired exactly once when the job    *)
(* ends, and it never fires twice.                                         *)
(***************************************************************************)
C1_CleanupExactlyOnce ==
    \A j \in JobIds :
        /\ Count(jobs[j], "close") <= 1
        /\ Ended(jobs[j]) =>
             /\ jobs[j].result \in {"DONE", "FAILED", "FAULTED"}
             /\ Count(jobs[j], "close") = 1

\* A job that ended FAULTED in the viewer hand-off, after its cleanup.
C1_Witness ==
    \E j \in JobIds :
        /\ Ended(jobs[j])
        /\ jobs[j].result = "FAULTED"
        /\ Has(jobs[j], "raise", 4)
        /\ Count(jobs[j], "close") = 1

(***************************************************************************)
(* C2.  A job whose build, solve and render stages all succeed has emitted *)
(* exactly the three progress calls in order, created exactly one file     *)
(* named report-<timestamp>.html, made exactly one cleanup call and no     *)
(* error-surface call.  (As claimed: for every such job.)                  *)
(***************************************************************************)
StagesSucceeded(job) ==
    Has(job, "return", 0) /\ Has(job, "return", 1) /\ Has(job, "return", 2)

SuccessOutcome(j) ==
    /\ Reports(jobs[j]) = AllReports
    /\ Count(jobs[j], "create") = 1
    /\ \A i \in Positions(jobs[j], "create") :
           FileName(jobs[j].trace[i].arg) \in files
    /\ Count(jobs[j], "close") = 1
    /\ ErrorTexts(j) = <<>>
    /\ Count(jobs[j], "error") = 0

C2_AsClaimed ==
    \A j \in JobIds :
        (Ended(jobs[j]) /\ StagesSucceeded(jobs[j])) => SuccessOutcome(j)

\* open() of the report file failed: the write raised and no file was made.
OpenFailed(job) == Has(job, "raise", 3) /\ Count(job, "create") = 0

\* C2, amended: the same for every such job whose report file could be
\* opened for writing.
C2_SuccessfulJob ==
    \A j \in JobIds :
        (Ended(jobs[j]) /\ StagesSucceeded(jobs[j]) /\ ~OpenFailed(jobs[j]))
            => SuccessOutcome(j)

\* A job that ended DONE with its report written and the viewer opened.
C2_Witness ==
    \E j \in JobIds :
        /\ Ended(jobs[j])
        /\ jobs[j].result = "DONE"
        /\ Has(jobs[j], "viewer", 1)
        /\ Count(jobs[j], "written") = 1

(***************************************************************************)
(* C3.  A job in which stage k fails with a CVRPException has emitted      *)
(* exactly the progress calls of stages 0..k, made exactly one             *)
(* error-surface call, carrying that exception's message, created no file, *)
(* run no later stage and no viewer hand-off, and made exactly one cleanup *)
(* call.                                                                   *)
(***************************************************************************)
DomainFailureAt(job, k) ==
    \E i \in 1..Len(job.trace) :
        /\ job.trace[i].ev = "raise"
        /\ job.trace[i].arg = k
        /\ job.trace[i].text = StageError(k)

C3_DomainFailure ==
    \A j \in JobIds : \A k \in 0..2 :
        (Ended(jobs[j]) /\ DomainFailureAt(jobs[j], k)) =>
            /\ jobs[j].result = "FAILED"
            /\ Reports(jobs[j]) = SubSeq(AllReports, 1, k + 1)
            /\ ErrorTexts(j) = <<StageError(k)>>
            /\ Count(jobs[j], "error") = 1
            /\ Count(jobs[j], "create") = 0
            /\ \A m \in (k + 1)..2 : ~Has(jobs[j], "invoke", m)
            /\ Count(jobs[j], "viewer") = 0
            /\ Count(jobs[j], "close") = 1

\* A job that ended after its render stage raised a CVRPException.
C3_Witness ==
    \E j \in JobIds :
        /\ Ended(jobs[j])
        /\ DomainFailureAt(jobs[j], 2)
        /\ Count(jobs[j], "close") = 1

(***************************************************************************)
(* C4.  A job in which a stage raises an error that is no CVRPException    *)
(* makes exactly one cleanup call and the error does not leave run().      *)
(***************************************************************************)
StageFaulted(job) ==
    \E i \in 1..Len(job.trace) :
        /\ job.trace[i].ev = "raise"
        /\ job.trace[i].arg \in 0..2
        /\ job.trace[i].text = ""

C4_FaultContained ==
    \A j \in JobIds :
        (Ended(jobs[j]) /\ StageFaulted(jobs[j])) =>
            /\ Count(jobs[j], "close") = 1
            /\ ~jobs[j].escaped

(***************************************************************************)
(* C5.  At every moment of every job: the progress reports emitted so far  *)
(* are the first reports of stages 0, 1, 2 in that order; a stage is       *)
(* invoked only after its report and after the stage before it has         *)
(* returned; and the cleanup call comes after everything else the job did. *)
(***************************************************************************)
C5_Ordering ==
    \A j \in JobIds :
        LET t == jobs[j].trace
            n == Len(Reports(jobs[j]))
        IN  /\ n <= 3
            /\ Reports(jobs[j]) = SubSeq(AllReports, 1, n)
            /\ \A i \in Positions(jobs[j], "invoke") :
                   /\ \E r \in 1..(i - 1) :
                          t[r].ev = "report" /\ t[r].arg = t[i].arg
                   /\ t[i].arg > 0 =>
                          \E r \in 1..(i - 1) :
                              t[r].ev = "return" /\ t[r].arg = t[i].arg - 1
            /\ \A i \in Positions(jobs[j], "close") : i = Len(t)
            /\ Ended(jobs[j]) => t[Len(t)].ev = "close"

\* A job that ended after its solve stage was attempted and failed.
C5_Witness ==
    \E j \in JobIds :
        /\ Ended(jobs[j])
        /\ Has(jobs[j], "raise", 1)
        /\ Len(Reports(jobs[j])) = 2

(***************************************************************************)
(* C6.  At most one solve job is in flight at any time: no job is          *)
(* submitted while an earlier one has not reached DONE, FAILED or FAULTED. *)
(***************************************************************************)
InFlight == {j \in JobIds : ~Ended(jobs[j])}

C6_OneJobInFlight == Cardinality(InFlight) <= 1

(***************************************************************************)
(* C7.  An activation of the solve trigger at which check_solvability()    *)
(* fails starts nothing: no job (and so no dialog) is created, nothing is  *)
(* queued for a dialog, no stage runs, no file is written, and the         *)
(* exception's message is put on the error surface exactly once.           *)
(***************************************************************************)
C7_ValidationFailure ==
    [][(clicks' = clicks + 1 /\ check_solvability # "ok") =>
          /\ jobs' = jobs
          /\ uiQueue' = uiQueue
          /\ files' = files
          /\ errorSurface' =
                 Append(errorSurface, [by |-> 0, text |-> check_solvability])
      ]_vars

\* The trigger was activated on a network without vehicles: the message box
\* is up, with the one message, and there is no job.
C7_Witness ==
    /\ clicks = 1
    /\ uiBox
    /\ vehicles = <<>>
    /\ jobs = <<>>
    /\ ErrorTexts(0) = <<"No vehicles defined">>

(***************************************************************************)
(* C8.  The depot is never removed: remove_client is never applied to the  *)
(* network's depot, and the network keeps its original depot.              *)
(***************************************************************************)
C8_DepotNeverRemoved ==
    /\ removeArg # depot
    /\ depot = DepotPlace
    /\ Head(all_places) = DepotPlace

(***************************************************************************)
(* C9.  After any sequence of add and remove operations, no two clients    *)
(* have the same name and no two vehicles have the same name.              *)
(***************************************************************************)
NoDuplicateNames(s) ==
    \A i, k \in 1..Len(s) : i # k => s[i].name # s[k].name

C9_UniqueNames == NoDuplicateNames(clients) /\ NoDuplicateNames(vehicles)

InitGate ==
    /\ depot = DepotPlace
    /\ placesMade \in {0, 2}
    /\ vehiclesMade \in {0, 1}
    /\ clients = IF placesMade = 0 THEN <<>>
                 ELSE <<NewClientPlace(1, 1), NewClientPlace(2, 2)>>
    /\ vehicles = IF vehiclesMade = 0 THEN <<>> ELSE <<NewVehicle(1, 1)>>
    /\ removeArg = NoItem
    /\ ptab = NewTab(<<DepotPlace>> \o clients)
    /\ vtab = NewTab(vehicles)
    /\ solveEnabled = TRUE
    /\ uiBox = FALSE
    /\ clicks = 0
    /\ errorSurface = <<>>
    /\ launch = "exec"
    /\ jobs = <<>>
    /\ uiQueue = <<>>
    /\ files = {}

SpecGate == InitGate /\ [][SolveNext \/ JobNext]_vars

\* A step of on_click_solve: the only action that counts the activations.
SolveClicked == clicks' = clicks + 1

\* C11: an activation of the solve trigger on a Network without vehicles or
\* without clients fails validation (an error is surfaced, no job is
\* submitted); on a Network of one depot, two clients and one vehicle
\* validation succeeds and the job is submitted; and no step ever submits a
\* job while the Network has no vehicles or no clients.
C11_SolvabilityGate ==
    [][ /\ (SolveClicked /\ (vehicles = <<>> \/ clients = <<>>))
            => /\ check_solvability # "ok"
               /\ jobs' = jobs
               /\ Len(errorSurface') = Len(errorSurface) + 1
        /\ (SolveClicked /\ Len(clients) = 2 /\ Len(vehicles) = 1)
            => /\ check_solvability = "ok"
               /\ Len(jobs') = Len(jobs) + 1
               /\ errorSurface' = errorSurface
        /\ (Len(jobs') > Len(jobs))
            => (vehicles # <<>> /\ clients # <<>>) ]_vars

\* The trigger has been activated on two clients and no vehicle: the
\* validation error is on screen and no job has been submitted.
C11_Witness ==
    /\ Len(clients) = 2 /\ vehicles = <<>>
    /\ clicks = 1 /\ uiBox
    /\ ErrorTexts(0) = <<"No vehicles defined">>
    /\ jobs = <<>>



(***************************************************************************)
(* launch_ui: the application and the main window are constructed, then    *)
(* get_solvers() is called.                                                *)
(***************************************************************************)
\* launch_ui from get_solvers() on.  With a solver available the window is
\* shown and app.exec() entered; on EnvironmentError the message box is
\* executed (recorded on the error surface as shown by -1).
launch_ui(available) ==
    /\ launch = "get_solvers"
    /\ IF available
       THEN /\ launch' = "exec"
            /\ UNCHANGED errorSurface
       ELSE /\ launch' = "msg"
            /\ errorSurface' = Append(errorSurface,
                                      [by |-> -1, text |-> "No available solvers"])
    /\ UNCHANGED <<netVars, tabVars, solveEnabled, uiBox, clicks, jobVars>>

\* launch_ui_return, had the return after msg.exec_() been left out:
\* control falls through to main.show() and app.exec().
launch_ui_return_show ==
    /\ launch = "msg"
    /\ launch' = "exec"
    /\ UNCHANGED <<netVars, tabVars, solveEnabled, uiBox, clicks, errorSurface,
                   jobVars>>

\* The message box is dismissed: msg.exec_() returns and launch_ui returns.
launch_ui_return ==
    /\ launch = "msg"
    /\ launch' = "returned"
    /\ UNCHANGED <<netVars, tabVars, solveEnabled, uiBox, clicks, errorSurface,
                   jobVars>>

LaunchNext ==
    \/ \E available \in BOOLEAN : launch_ui(available)
    \/ launch_ui_return

\* launch_ui(network) on each Network of InitSolve, before get_solvers().
InitLaunch ==
    /\ depot = DepotPlace
    /\ placesMade \in {0, 1}
    /\ vehiclesMade \in {0, 1}
    /\ clients = IF placesMade = 0 THEN <<>> ELSE <<NewClientPlace(1, 1)>>
    /\ vehicles = IF vehiclesMade = 0 THEN <<>> ELSE <<NewVehicle(1, 1)>>
    /\ removeArg = NoItem
    /\ ptab = NewTab(<<DepotPlace>> \o clients)
    /\ vtab = NewTab(vehicles)
    /\ solveEnabled = TRUE
    /\ uiBox = FALSE
    /\ clicks = 0
    /\ errorSurface = <<>>
    /\ launch = "get_solvers"
    /\ jobs = <<>>
    /\ uiQueue = <<>>
    /\ files = {}

SpecLaunch == InitLaunch /\ [][LaunchNext \/ SolveNext \/ JobNext]_vars

\* C13: once the startup check has reported that no solver is available,
\* that failure is the one and only thing ever surfaced: the main window is
\* not shown and the event loop not entered (launch_ui is in its message
\* box or has returned), the solve trigger has never been activated and no
\* job has been submitted.
C13_NoSolverNoSession ==
    (ErrorTexts(-1) # <<>>)
        => /\ launch \in {"msg", "returned"}
           /\ errorSurface = <<[by |-> -1, text |-> "No available solvers"]>>
           /\ clicks = 0
           /\ jobs = <<>>

\* launch_ui has returned after the message box, on a solvable Network.
C13_Witness ==
    /\ launch = "returned"
    /\ ErrorTexts(-1) = <<"No available solvers">>
    /\ check_solvability = "ok"


\* C14: on_click_solve never waits for a job.  When an activation submits a
\* job, the handler has returned in the same step (trigger enabled, no
\* message box) and the job has not run any of its pipeline yet; when
\* validation fails the handler is in its message box with the trigger
\* disabled, and the step that dismisses the box enables the trigger.  So
\* whenever the handler is not running, the trigger is enabled.
C14_TriggerNeverWaits ==
    /\ [](~uiBox => solveEnabled)
    /\ [][ /\ (SolveClicked /\ check_solvability = "ok")
               => /\ solveEnabled' /\ ~uiBox'
                  /\ Len(jobs') = Len(jobs) + 1
                  /\ jobs'[Len(jobs')].pc = "ready"
                  /\ jobs'[Len(jobs')].trace = <<>>
           /\ (SolveClicked /\ check_solvability # "ok")
               => (uiBox' /\ ~solveEnabled' /\ jobs' = jobs)
           /\ (uiBox /\ ~uiBox') => solveEnabled' ]_vars

\* The handler has returned and the trigger is enabled while the submitted
\* job is inside its first stage, its dialog still on screen.
C14_Witness ==
    /\ clicks = 1 /\ ~uiBox /\ solveEnabled
    /\ Len(jobs) = 1
    /\ jobs[1].pc = "running" /\ jobs[1].stage = 0
    /\ jobs[1].bar.visible


\* The queued dialog calls of job j that have not been delivered yet.
PendingCalls(j) ==
    LET Mine(call) == call.job = j
    IN  SelectSeq(uiQueue, Mine)

\* C15: close() is terminal.  When a job's dialog has been closed, every
\* progress update of that job has already taken effect (none is still
\* queued) and none has been applied to the dialog after the close.
C15_CloseIsTerminal ==
    \A j \in JobIds :
        jobs[j].bar.closed
            => (PendingCalls(j) = <<>> /\ jobs[j].bar.late = 0)


(***************************************************************************)
(* The solve trigger and the jobs together with handlers of the tabs that  *)
(* change the Network (clients are added and removed, vehicles added), on  *)
(* the Networks of InitSolve.                                              *)
(***************************************************************************)
MutateNext ==
    \/ \E i \in 1..(MaxPlaces + 1) : Places_itemClicked(i)
    \/ Places_on_item_add
    \/ Places_on_item_remove
    \/ Places_on_editor_close
    \/ Vehicles_on_item_add
    \/ Vehicles_on_editor_close

SpecMutate == InitSolve /\ [][MutateNext \/ SolveNext \/ JobNext]_vars

\* C16: a step taken while a job is in flight (submitted and not yet at its
\* terminal state and cleanup) leaves the clients and the vehicles of the
\* Network as they are.
C16_NoMutationInFlight ==
    [][(InFlight # {}) => UNCHANGED <<clients, vehicles>>]_vars


(***************************************************************************)
(* SpecSolve with the worker scheduled: the thread pool runs a started     *)
(* runnable, and each stage, the file write, the viewer hand-off and the   *)
(* error dialog of run() return in the end, so a job that can take a step  *)
(* does take one.                                                          *)
(***************************************************************************)
SpecSolveFair == SpecSolve /\ WF_vars(JobNext)

\* What is left of the job when its dialog is put aside.
WithoutBar(job) == [job EXCEPT !.bar = NewDialog]

\* C17: cancellation is not supported.  The step that cancels a job's
\* dialog changes nothing of the job but the dialog; a cancelled job in
\* which nothing was raised has run all three stages, written its report
\* and handed it to the viewer; and every submitted job eventually ends in
\* DONE, FAILED or FAULTED with its cleanup done.
C17_CancelNotSupported ==
    /\ [][\A j \in 1..(MaxClicks + 1) :
              (j <= Len(jobs) /\ ~jobs[j].bar.canceled /\ jobs'[j].bar.canceled)
                  => WithoutBar(jobs'[j]) = WithoutBar(jobs[j])]_vars
    /\ [](\A j \in JobIds :
              (jobs[j].bar.canceled /\ Ended(jobs[j])
                   /\ Count(jobs[j], "raise") = 0)
                  => /\ StagesSucceeded(jobs[j])
                     /\ Count(jobs[j], "written") = 1
                     /\ Count(jobs[j], "viewer") = 1)
    /\ \A j \in 1..(MaxClicks + 1) :
           (j <= Len(jobs))
               ~> /\ j <= Len(jobs)
                  /\ Ended(jobs[j])
                  /\ jobs[j].result \in {"DONE", "FAILED", "FAULTED"}
                  /\ Count(jobs[j], "close") = 1

\* A job cancelled while it ran (every update reached the dialog before the
\* close, so the dialog was on screen only before it) that ended DONE.
C17_Witness ==
    \E j \in JobIds :
        /\ jobs[j].bar.canceled
        /\ jobs[j].bar.late = 0
        /\ Ended(jobs[j])
        /\ jobs[j].result = "DONE"
        /\ StagesSucceeded(jobs[j])


\* The report of the job has been written and is still there.
ArtifactKept(job) ==
    /\ Count(job, "written") = 1
    /\ \A i \in Positions(job, "written") : FileName(job.trace[i].arg) \in files

\* C18: a job whose three stages succeeded and whose report was written
\* ends DONE with the report kept, no error-surface call and exactly one
\* cleanup call, whatever became of the viewer hand-off.
C18_ViewerFailureIsNotJobFailure ==
    \A j \in JobIds :
        (Ended(jobs[j]) /\ StagesSucceeded(jobs[j])
             /\ Count(jobs[j], "written") = 1)
            => /\ jobs[j].result = "DONE"
               /\ ArtifactKept(jobs[j])
               /\ ErrorTexts(j) = <<>>
               /\ Count(jobs[j], "close") = 1

====
